---------------------------- MODULE Spec2Model ----------------------------
(***************************************************************************)
(* Model of uwv_dynamic_model::DynamicModel (src/src/DynamicModel.cpp).    *)
(*                                                                         *)
(* The object holds two members: uwv_parameters and invert_inertia_matrix. *)
(* Its operations are setUWVParameters, getUWVParameters, calcAcceleration *)
(* and calcEfforts.  A thrown exception is modelled as the outcome of the  *)
(* call; the variable call records the last call, its arguments and what   *)
(* the caller got back.                                                    *)
(*                                                                         *)
(* Numbers: the finite doubles drawn here are integers, so every product   *)
(* and sum is exact; the only non-integers are the entries of the inverse  *)
(* inertia matrix and of an acceleration, kept as exact fractions (integer *)
(* numerators over one positive denominator, in lowest terms).  NaN is the *)
(* one non-finite double the code tests for; it propagates through + - *   *)
(* as IEEE-754 says.                                                       *)
(***************************************************************************)
EXTENDS Integers, Sequences, FiniteSets, TLC

VARIABLES uwv_parameters, invert_inertia_matrix, call

vars == <<uwv_parameters, invert_inertia_matrix, call>>

---------------------------------------------------------------------------
(* Scalars.                                                                *)

NaN == -1000000

isnan(x) == x = NaN

Plus(a, b) == IF isnan(a) \/ isnan(b) THEN NaN ELSE a + b

Minus(a, b) == IF isnan(a) \/ isnan(b) THEN NaN ELSE a - b

Times(a, b) == IF isnan(a) \/ isnan(b) THEN NaN ELSE a * b

Negate(a) == IF isnan(a) THEN NaN ELSE 0 - a

Abs(a) == IF isnan(a) THEN NaN ELSE IF a < 0 THEN 0 - a ELSE a

---------------------------------------------------------------------------
(* base::Vector3d, base::Vector6d, base::Matrix6d (Eigen fixed-size).      *)

Zero3 == <<0, 0, 0>>

Zero6 == <<0, 0, 0, 0, 0, 0>>

ZeroMatrix == <<Zero6, Zero6, Zero6, Zero6, Zero6, Zero6>>

Identity == << <<1, 0, 0, 0, 0, 0>>, <<0, 1, 0, 0, 0, 0>>, <<0, 0, 1, 0, 0, 0>>,
               <<0, 0, 0, 1, 0, 0>>, <<0, 0, 0, 0, 1, 0>>, <<0, 0, 0, 0, 0, 1>> >>

head3(v) == <<v[1], v[2], v[3]>>

tail3(v) == <<v[4], v[5], v[6]>>

Join(a, b) == <<a[1], a[2], a[3], b[1], b[2], b[3]>>

cross(a, b) == << Minus(Times(a[2], b[3]), Times(a[3], b[2])),
                  Minus(Times(a[3], b[1]), Times(a[1], b[3])),
                  Minus(Times(a[1], b[2]), Times(a[2], b[1])) >>

Add3(a, b) == <<Plus(a[1], b[1]), Plus(a[2], b[2]), Plus(a[3], b[3])>>

Sub3(a, b) == <<Minus(a[1], b[1]), Minus(a[2], b[2]), Minus(a[3], b[3])>>

Scale3(a, k) == <<Times(a[1], k), Times(a[2], k), Times(a[3], k)>>

Add6(a, b) == <<Plus(a[1], b[1]), Plus(a[2], b[2]), Plus(a[3], b[3]),
                Plus(a[4], b[4]), Plus(a[5], b[5]), Plus(a[6], b[6])>>

Sub6(a, b) == <<Minus(a[1], b[1]), Minus(a[2], b[2]), Minus(a[3], b[3]),
                Minus(a[4], b[4]), Minus(a[5], b[5]), Minus(a[6], b[6])>>

Neg6(a) == <<Negate(a[1]), Negate(a[2]), Negate(a[3]),
             Negate(a[4]), Negate(a[5]), Negate(a[6])>>

cwiseAbs(a) == <<Abs(a[1]), Abs(a[2]), Abs(a[3]), Abs(a[4]), Abs(a[5]), Abs(a[6])>>

NaN6 == <<NaN, NaN, NaN, NaN, NaN, NaN>>

NaNMatrix == <<NaN6, NaN6, NaN6, NaN6, NaN6, NaN6>>

hasNaN(v) == \E i \in 1..6 : isnan(v[i])

\* the dot product of two finite vectors
IntDot(r, c) == r[1]*c[1] + r[2]*c[2] + r[3]*c[3] + r[4]*c[4] + r[5]*c[5] + r[6]*c[6]

\* m * v for a finite matrix m: a NaN anywhere in v reaches every row
MatVec(m, v) == IF hasNaN(v) THEN NaN6
                ELSE <<IntDot(m[1], v), IntDot(m[2], v), IntDot(m[3], v),
                       IntDot(m[4], v), IntDot(m[5], v), IntDot(m[6], v)>>

IntScaleRow(r, k) == <<r[1] * k, r[2] * k, r[3] * k, r[4] * k, r[5] * k, r[6] * k>>

\* m * k for a finite matrix m
MatScale(m, k) == IF isnan(k) THEN NaNMatrix
                  ELSE <<IntScaleRow(m[1], k), IntScaleRow(m[2], k), IntScaleRow(m[3], k),
                         IntScaleRow(m[4], k), IntScaleRow(m[5], k), IntScaleRow(m[6], k)>>

IntAddRow(a, b) == <<a[1] + b[1], a[2] + b[2], a[3] + b[3], a[4] + b[4], a[5] + b[5], a[6] + b[6]>>

\* a + b for matrices that are finite or NaN in every entry (as MatScale gives them)
MatAdd(a, b) == IF isnan(a[1][1]) \/ isnan(b[1][1]) THEN NaNMatrix
                ELSE <<IntAddRow(a[1], b[1]), IntAddRow(a[2], b[2]), IntAddRow(a[3], b[3]),
                       IntAddRow(a[4], b[4]), IntAddRow(a[5], b[5]), IntAddRow(a[6], b[6])>>

\* m * d.asDiagonal(): column j of m scaled by d[j]
ScaleCols(r, d) == <<Times(r[1], d[1]), Times(r[2], d[2]), Times(r[3], d[3]),
                     Times(r[4], d[4]), Times(r[5], d[5]), Times(r[6], d[6])>>

MatTimesDiagonal(m, d) == <<ScaleCols(m[1], d), ScaleCols(m[2], d), ScaleCols(m[3], d),
                            ScaleCols(m[4], d), ScaleCols(m[5], d), ScaleCols(m[6], d)>>

Column(m, j) == <<m[1][j], m[2][j], m[3][j], m[4][j], m[5][j], m[6][j]>>

Transpose(m) == <<Column(m, 1), Column(m, 2), Column(m, 3),
                  Column(m, 4), Column(m, 5), Column(m, 6)>>

\* a * b for finite matrices, given a and the transpose of b
RowTimes(r, bt) == <<IntDot(r, bt[1]), IntDot(r, bt[2]), IntDot(r, bt[3]),
                     IntDot(r, bt[4]), IntDot(r, bt[5]), IntDot(r, bt[6])>>

MatMulT(a, bt) == <<RowTimes(a[1], bt), RowTimes(a[2], bt), RowTimes(a[3], bt),
                    RowTimes(a[4], bt), RowTimes(a[5], bt), RowTimes(a[6], bt)>>

MatMul(a, b) == MatMulT(a, Transpose(b))

Trace(m) == m[1][1] + m[2][2] + m[3][3] + m[4][4] + m[5][5] + m[6][6]

---------------------------------------------------------------------------
(* Exact fractions: numerators over one positive denominator.              *)

RECURSIVE Gcd(_, _)
Gcd(a, b) == IF b = 0 THEN a ELSE Gcd(b, a % b)

Mag(a) == IF a < 0 THEN 0 - a ELSE a

Gcd6(g, r) == Gcd(Gcd(Gcd(Gcd(Gcd(Gcd(g, Mag(r[1])), Mag(r[2])), Mag(r[3])),
                  Mag(r[4])), Mag(r[5])), Mag(r[6]))

DivRow(r, k) == <<r[1] \div k, r[2] \div k, r[3] \div k, r[4] \div k, r[5] \div k, r[6] \div k>>

\* the vector n / d in lowest terms, d # 0
FracVec(n, d) ==
    IF hasNaN(n) THEN [num |-> n, den |-> 1]
    ELSE LET g == Gcd6(Mag(d), n)
             k == IF d < 0 THEN 0 - g ELSE g
         IN  [num |-> DivRow(n, k), den |-> d \div k]

\* the matrix n / d in lowest terms, d # 0
FracMat(n, d) ==
    LET g == Gcd6(Gcd6(Gcd6(Gcd6(Gcd6(Gcd6(Mag(d), n[1]), n[2]), n[3]), n[4]), n[5]), n[6])
        k == IF d < 0 THEN 0 - g ELSE g
    IN  [num |-> <<DivRow(n[1], k), DivRow(n[2], k), DivRow(n[3], k),
                   DivRow(n[4], k), DivRow(n[5], k), DivRow(n[6], k)>>,
         den |-> d \div k]

\* (m.num / m.den) * v
FracMatVec(m, v) == FracVec(MatVec(m.num, v), m.den)

---------------------------------------------------------------------------
(* Eigen::JacobiSVD::solve(Identity): the least-squares solution of        *)
(* M * X = I of minimum norm, i.e. the Moore-Penrose pseudo-inverse of M   *)
(* (the inverse when M is invertible).  Computed exactly with the          *)
(* characteristic polynomial of B = M * M^T:                               *)
(*    N_1 = I, c_k = -tr(B N_k)/k, N_(k+1) = B N_k + c_k I ,               *)
(*    M^+ = -(M^T N_r) / c_r  for the last r with c_r # 0, and 0 if none.  *)

AddDiagonal(m, c) == MatAdd(m, MatScale(Identity, c))

RECURSIVE CharPoly(_, _, _, _, _)
CharPoly(B, N, k, lastN, lastC) ==
    IF k > 6 THEN [N |-> lastN, c |-> lastC]
    ELSE LET BN == MatMul(B, N)
             c  == (0 - Trace(BN)) \div k
         IN  IF c # 0 THEN CharPoly(B, AddDiagonal(BN, c), k + 1, N, c)
                      ELSE CharPoly(B, AddDiagonal(BN, c), k + 1, lastN, lastC)

JacobiSVD_solve_Identity(m) ==
    LET r == CharPoly(MatMulT(m, m), Identity, 1, ZeroMatrix, 0)
    IN  IF r.c = 0 THEN [num |-> ZeroMatrix, den |-> 1]
        ELSE FracMat(MatMul(Transpose(m), r.N), 0 - r.c)

\* m has an inverse: m * X = I for the X solved above
Invertible(m) == MatMul(m, JacobiSVD_solve_Identity(m).num)
                    = MatScale(Identity, JacobiSVD_solve_Identity(m).den)

---------------------------------------------------------------------------
(* base::Orientation (Eigen::Quaterniond).  Components are kept in units   *)
(* of 1/2, so that the unit quaternions (+-1 +-i +-j +-k)/2 are exact.     *)

Quat(w, x, y, z) == [w |-> w, x |-> x, y |-> y, z |-> z]

vec(q) == <<q.x, q.y, q.z>>

\* squaredNorm() in units of 1/4
squaredNorm4(q) == q.w * q.w + q.x * q.x + q.y * q.y + q.z * q.z

\* Quaternion::inverse(): conjugate() / squaredNorm(), the zero quaternion if the norm is 0
inverse(q) ==
    LET n == squaredNorm4(q)
    IN  IF n > 0 THEN Quat((4 * q.w) \div n, (0 - 4 * q.x) \div n,
                           (0 - 4 * q.y) \div n, (0 - 4 * q.z) \div n)
        ELSE Quat(0, 0, 0, 0)

\* Quaternion * Vector3d (_transformVector): uv = 2 vec x v; v + w uv + vec x uv
transformVector(q, v) ==
    LET uv == cross(vec(q), v)
        s  == Add3(Scale3(uv, q.w), cross(vec(q), uv))
    IN  <<v[1] + s[1] \div 2, v[2] + s[2] \div 2, v[3] + s[3] \div 2>>

---------------------------------------------------------------------------
(* What a call gives back: a value, or the exception it throws.            *)

Ok(v) == [outcome |-> "ok", value |-> v]

Throw(type, what) == [outcome |-> type, what |-> what]

---------------------------------------------------------------------------
(* UWVParameters and the checks.                                           *)

ModelTypes == {"SIMPLE", "COMPLEX", "INTERMEDIATE"}

UWVParameters(type, inertia, damping, cb, cg, w, b) ==
    [model_type |-> type, inertia_matrix |-> inertia, damping_matrices |-> damping,
     distance_body2centerofbuoyancy |-> cb, distance_body2centerofgravity |-> cg,
     weight |-> w, buoyancy |-> b]

\* UWVParameters(): what the default constructor leaves in the struct
DefaultUWVParameters ==
    UWVParameters("SIMPLE", Identity, <<ZeroMatrix, ZeroMatrix>>, Zero3, Zero3, 1, 1)

\* the weight and buoyancy tests with < in place of <=
checkParameters_ZeroAllowed(parameters) ==
    IF parameters.model_type = "SIMPLE" /\ Len(parameters.damping_matrices) # 2
    THEN Throw("invalid_argument", "in SIMPLE model, damping_matrices should have two elements")
    ELSE IF parameters.model_type = "COMPLEX" /\ Len(parameters.damping_matrices) # 6
    THEN Throw("invalid_argument", "in COMPLEX model, damping_matrices should have six elements")
    ELSE IF parameters.weight < 0
    THEN Throw("invalid_argument", "weight must be a positive value")
    ELSE IF parameters.buoyancy < 0
    THEN Throw("invalid_argument", "buoyancy must be a positive value")
    ELSE Ok(TRUE)

checkParameters(parameters) ==
    IF parameters.model_type = "SIMPLE" /\ Len(parameters.damping_matrices) # 2
    THEN Throw("invalid_argument", "in SIMPLE model, damping_matrices should have two elements")
    ELSE IF parameters.model_type = "COMPLEX" /\ Len(parameters.damping_matrices) # 6
    THEN Throw("invalid_argument", "in COMPLEX model, damping_matrices should have six elements")
    ELSE IF parameters.weight <= 0
    THEN Throw("invalid_argument", "weight must be a positive value")
    ELSE IF parameters.buoyancy <= 0
    THEN Throw("invalid_argument", "buoyancy must be a positive value")
    ELSE Ok(TRUE)

checkControlInput(control_input) ==
    IF hasNaN(control_input)
    THEN Throw("runtime_error", "DynamicModel checkControlInput: control input is unset")
    ELSE Ok(TRUE)

\* only the linear velocity tested
checkVelocity_LinearOnly(velocity) ==
    IF \E i \in 1..3 : isnan(velocity[i])
    THEN Throw("runtime_error", "DynamicModel checkVelocity: velocity is unset")
    ELSE Ok(TRUE)

checkVelocity(velocity) ==
    IF hasNaN(velocity)
    THEN Throw("runtime_error", "DynamicModel checkVelocity: velocity is unset")
    ELSE Ok(TRUE)

checkAcceleration(acceleration) ==
    IF hasNaN(acceleration)
    THEN Throw("runtime_error", "DynamicModel checkAcceleration: acceleration is unset")
    ELSE Ok(TRUE)

---------------------------------------------------------------------------
(* The terms of the equation of motion.                                    *)

Diagonal(d) == << <<d[1], 0, 0, 0, 0, 0>>, <<0, d[2], 0, 0, 0, 0>>, <<0, 0, d[3], 0, 0, 0>>,
                  <<0, 0, 0, d[4], 0, 0>>, <<0, 0, 0, 0, d[5], 0>>, <<0, 0, 0, 0, 0, d[6]>> >>

\* mass 2 with the surge/pitch and sway/roll added-mass coupling
CoupledInertia == << <<2, 0, 0, 0, 1, 0>>, <<0, 2, 0, -1, 0, 0>>, <<0, 0, 2, 0, 0, 0>>,
                     <<0, -1, 0, 1, 0, 0>>, <<1, 0, 0, 0, 1, 0>>, <<0, 0, 0, 0, 0, 1>> >>

\* no inertia about the yaw axis, surge and sway fully coupled: rank 4
SingularInertia == << <<1, 1, 0, 0, 0, 0>>, <<1, 1, 0, 0, 0, 0>>, <<0, 0, 1, 0, 0, 0>>,
                      <<0, 0, 0, 1, 0, 0>>, <<0, 0, 0, 0, 1, 0>>, <<0, 0, 0, 0, 0, 0>> >>

\* the inertia matrices the specifications configure
InertiaMatrices ==
    {Identity, Diagonal(<<2, 2, 2, 1, 1, 1>>), Diagonal(<<3, 3, 3, 1, 2, 2>>),
     CoupledInertia, SingularInertia}

\* the solve for each of them, evaluated once
Solved == [m \in InertiaMatrices |-> JacobiSVD_solve_Identity(m)]

calcInvInertiaMatrix(inertia_matrix) ==
    IF inertia_matrix \in InertiaMatrices THEN Solved[inertia_matrix]
    ELSE JacobiSVD_solve_Identity(inertia_matrix)

calcCoriolisEffect(inertia_matrix, velocity) ==
    LET prod == MatVec(inertia_matrix, velocity)
    IN  Neg6(Join(cross(head3(prod), tail3(velocity)),
                  Add3(cross(head3(prod), head3(velocity)),
                       cross(tail3(prod), tail3(velocity)))))

RECURSIVE SumScaled(_, _, _)
\* dampMatrix after the loop has added the matrices i..size()
SumScaled(quad_damp_matrices, absVelocity, i) ==
    IF i > Len(quad_damp_matrices) THEN ZeroMatrix
    ELSE MatAdd(MatScale(quad_damp_matrices[i], absVelocity[i]),
                SumScaled(quad_damp_matrices, absVelocity, i + 1))

caclGeneralQuadDamping(quad_damp_matrices, velocity) ==
    IF Len(quad_damp_matrices) # 6
    THEN Throw("runtime_error", "quadDampMatrices does not have 6 elements.")
    ELSE Ok(MatVec(SumScaled(quad_damp_matrices, cwiseAbs(velocity), 1), velocity))

calcLinDamping(lin_damp_matrix, velocity) == MatVec(lin_damp_matrix, velocity)

calcQuadDamping(quad_damp_matrix, velocity) ==
    MatVec(MatTimesDiagonal(quad_damp_matrix, cwiseAbs(velocity)), velocity)

caclSimpleDamping(damp_matrices, velocity) ==
    IF Len(damp_matrices) # 2
    THEN Throw("runtime_error", "dampMatrices does not have 2 elements.")
    ELSE Ok(Add6(calcLinDamping(damp_matrices[1], velocity),
                 calcQuadDamping(damp_matrices[2], velocity)))

\* a + b where b is the result of a call that may have thrown
AddTo(a, b) == IF b.outcome = "ok" THEN Ok(Add6(a, b.value)) ELSE b

\* the Coriolis term added for SIMPLE too
calcDampingAndCoriolisEffect_AlwaysCoriolis(parameters, velocity) ==
    CASE parameters.model_type = "SIMPLE" ->
            AddTo(calcCoriolisEffect(parameters.inertia_matrix, velocity),
                  caclSimpleDamping(parameters.damping_matrices, velocity))
      [] parameters.model_type = "COMPLEX" ->
            AddTo(calcCoriolisEffect(parameters.inertia_matrix, velocity),
                  caclGeneralQuadDamping(parameters.damping_matrices, velocity))
      [] parameters.model_type = "INTERMEDIATE" ->
            AddTo(calcCoriolisEffect(parameters.inertia_matrix, velocity),
                  caclSimpleDamping(parameters.damping_matrices, velocity))

calcDampingAndCoriolisEffect(parameters, velocity) ==
    CASE parameters.model_type = "SIMPLE" ->
            caclSimpleDamping(parameters.damping_matrices, velocity)
      [] parameters.model_type = "COMPLEX" ->
            AddTo(calcCoriolisEffect(parameters.inertia_matrix, velocity),
                  caclGeneralQuadDamping(parameters.damping_matrices, velocity))
      [] parameters.model_type = "INTERMEDIATE" ->
            AddTo(calcCoriolisEffect(parameters.inertia_matrix, velocity),
                  caclSimpleDamping(parameters.damping_matrices, velocity))

\* the moment arm summed instead of subtracted
calcGravityBuoyancy_ArmsAdded(orientation, weight, bouyancy, cg, cb) ==
    Join(transformVector(inverse(orientation), <<0, 0, weight - bouyancy>>),
         cross(Add3(Scale3(cg, weight), Scale3(cb, bouyancy)),
               transformVector(inverse(orientation), <<0, 0, 1>>)))

calcGravityBuoyancy(orientation, weight, bouyancy, cg, cb) ==
    Join(transformVector(inverse(orientation), <<0, 0, weight - bouyancy>>),
         cross(Sub3(Scale3(cg, weight), Scale3(cb, bouyancy)),
               transformVector(inverse(orientation), <<0, 0, 1>>)))

calcGravityBuoyancyOf(orientation, parameters) ==
    calcGravityBuoyancy(orientation, parameters.weight, parameters.buoyancy,
                        parameters.distance_body2centerofgravity,
                        parameters.distance_body2centerofbuoyancy)

---------------------------------------------------------------------------
(* The public evaluations, as the values they return on the current object.*)

\* the restoring term added to the control input instead of subtracted
calcAccelerationResult_GravityAdded(control_input, velocity, orientation) ==
    IF checkControlInput(control_input).outcome # "ok" THEN checkControlInput(control_input)
    ELSE IF checkVelocity(velocity).outcome # "ok" THEN checkVelocity(velocity)
    ELSE LET gravity == calcGravityBuoyancyOf(orientation, uwv_parameters)
             damping == calcDampingAndCoriolisEffect(uwv_parameters, velocity)
         IN  IF damping.outcome # "ok" THEN damping
             ELSE Ok(FracMatVec(invert_inertia_matrix,
                                Sub6(Add6(control_input, gravity), damping.value)))

calcAccelerationResult(control_input, velocity, orientation) ==
    IF checkControlInput(control_input).outcome # "ok" THEN checkControlInput(control_input)
    ELSE IF checkVelocity(velocity).outcome # "ok" THEN checkVelocity(velocity)
    ELSE LET gravity == calcGravityBuoyancyOf(orientation, uwv_parameters)
             damping == calcDampingAndCoriolisEffect(uwv_parameters, velocity)
         IN  IF damping.outcome # "ok" THEN damping
             ELSE Ok(FracMatVec(invert_inertia_matrix,
                                Sub6(Sub6(control_input, gravity), damping.value)))

calcEffortsResult(acceleration, velocity, orientation) ==
    IF checkAcceleration(acceleration).outcome # "ok" THEN checkAcceleration(acceleration)
    ELSE IF checkVelocity(velocity).outcome # "ok" THEN checkVelocity(velocity)
    ELSE LET gravity == calcGravityBuoyancyOf(orientation, uwv_parameters)
             damping == calcDampingAndCoriolisEffect(uwv_parameters, velocity)
         IN  IF damping.outcome # "ok" THEN damping
             ELSE Ok(Add6(Add6(MatVec(uwv_parameters.inertia_matrix, acceleration), gravity),
                          damping.value))

---------------------------------------------------------------------------
(* The object: construction and the four operations.                       *)

\* DynamicModel::DynamicModel(): setUWVParameters(UWVParameters()); an exception
\* would leave no object behind
Init ==
    /\ checkParameters(DefaultUWVParameters).outcome = "ok"
    /\ uwv_parameters = DefaultUWVParameters
    /\ invert_inertia_matrix = calcInvInertiaMatrix(DefaultUWVParameters.inertia_matrix)
    /\ call = [op |-> "DynamicModel", ret |-> Ok(TRUE)]

\* the parameters stored before they are checked
setUWVParameters_StoreFirst(parameters) ==
    IF checkParameters(parameters).outcome # "ok"
    THEN /\ uwv_parameters' = parameters
         /\ call' = [op |-> "setUWVParameters", parameters |-> parameters,
                     ret |-> checkParameters(parameters)]
         /\ UNCHANGED invert_inertia_matrix
    ELSE /\ uwv_parameters' = parameters
         /\ invert_inertia_matrix' = calcInvInertiaMatrix(uwv_parameters'.inertia_matrix)
         /\ call' = [op |-> "setUWVParameters", parameters |-> parameters, ret |-> Ok(TRUE)]

\* the inverse taken from the inertia matrix held before the assignment
setUWVParameters_StaleInverse(parameters) ==
    IF checkParameters(parameters).outcome # "ok"
    THEN /\ call' = [op |-> "setUWVParameters", parameters |-> parameters,
                     ret |-> checkParameters(parameters)]
         /\ UNCHANGED <<uwv_parameters, invert_inertia_matrix>>
    ELSE /\ uwv_parameters' = parameters
         /\ invert_inertia_matrix' = calcInvInertiaMatrix(uwv_parameters.inertia_matrix)
         /\ call' = [op |-> "setUWVParameters", parameters |-> parameters, ret |-> Ok(TRUE)]

setUWVParameters(parameters) ==
    IF checkParameters(parameters).outcome # "ok"
    THEN /\ call' = [op |-> "setUWVParameters", parameters |-> parameters,
                     ret |-> checkParameters(parameters)]
         /\ UNCHANGED <<uwv_parameters, invert_inertia_matrix>>
    ELSE /\ uwv_parameters' = parameters
         /\ invert_inertia_matrix' = calcInvInertiaMatrix(uwv_parameters'.inertia_matrix)
         /\ call' = [op |-> "setUWVParameters", parameters |-> parameters, ret |-> Ok(TRUE)]

getUWVParameters ==
    /\ call' = [op |-> "getUWVParameters", ret |-> Ok(uwv_parameters)]
    /\ UNCHANGED <<uwv_parameters, invert_inertia_matrix>>

calcAcceleration(control_input, velocity, orientation) ==
    /\ call' = [op |-> "calcAcceleration", control_input |-> control_input,
                velocity |-> velocity, orientation |-> orientation,
                ret |-> calcAccelerationResult(control_input, velocity, orientation)]
    /\ UNCHANGED <<uwv_parameters, invert_inertia_matrix>>

\* a failed evaluation puts the default parameters back
calcEfforts_ResetOnError(acceleration, velocity, orientation) ==
    /\ call' = [op |-> "calcEfforts", acceleration |-> acceleration,
                velocity |-> velocity, orientation |-> orientation,
                ret |-> calcEffortsResult(acceleration, velocity, orientation)]
    /\ IF calcEffortsResult(acceleration, velocity, orientation).outcome = "ok"
       THEN UNCHANGED <<uwv_parameters, invert_inertia_matrix>>
       ELSE /\ uwv_parameters' = DefaultUWVParameters
            /\ invert_inertia_matrix' = calcInvInertiaMatrix(DefaultUWVParameters.inertia_matrix)

calcEfforts(acceleration, velocity, orientation) ==
    /\ call' = [op |-> "calcEfforts", acceleration |-> acceleration,
                velocity |-> velocity, orientation |-> orientation,
                ret |-> calcEffortsResult(acceleration, velocity, orientation)]
    /\ UNCHANGED <<uwv_parameters, invert_inertia_matrix>>

---------------------------------------------------------------------------
(* Inputs.                                                                 *)

MaxDampingSize == 7

MaxSpeed == 2

\* the i-th damping matrix of a vehicle: i on the diagonal, and DOF i drags DOF i+1
Damping(i) ==
    MatAdd(MatScale(Identity, i),
           [ZeroMatrix EXCEPT ![((i - 1) % 6) + 1][(i % 6) + 1] = 1])

DampingMatrices(n) == [i \in 1..n |-> Damping(i)]

ZeroDampingMatrices(n) == [i \in 1..n |-> ZeroMatrix]

Scalars == -1..1

\* configuration: every fidelity with every damping count, weight and buoyancy
\* the inertia of the vehicles configured with each fidelity
InertiaOf(type) ==
    CASE type = "SIMPLE" -> Diagonal(<<2, 2, 2, 1, 1, 1>>)
      [] type = "INTERMEDIATE" -> Diagonal(<<3, 3, 3, 1, 2, 2>>)
      [] type = "COMPLEX" -> CoupledInertia

ConfigParameterSets ==
    { UWVParameters(type, InertiaOf(type), DampingMatrices(n), Zero3, <<0, 0, 1>>, w, b) :
        type \in ModelTypes, n \in 0..MaxDampingSize, w \in Scalars, b \in Scalars }

WithNaN(v, i) == [v EXCEPT ![i] = NaN]

Upright == Quat(2, 0, 0, 0)

\* half a turn about the body x axis
UpsideDown == Quat(0, 2, 0, 0)

\* a third of a turn about the diagonal (1,1,1)
Tilted == Quat(1, 1, 1, 1)

Orientations == {Upright, UpsideDown, Tilted}

ConfigInputs ==
    { <<<<1, -2, 0, 1, 0, -1>>, <<1, 0, -2, 0, 1, -1>>, Upright>>,
      <<WithNaN(Zero6, 1), <<1, 0, -2, 0, 1, -1>>, Upright>>,
      <<<<1, -2, 0, 1, 0, -1>>, WithNaN(Zero6, 6), Tilted>> }

\* evaluation: vehicles of each fidelity, among them the INTERMEDIATE one with six matrices
EvalDamping ==
    { <<"SIMPLE", ZeroDampingMatrices(2)>>, <<"SIMPLE", DampingMatrices(2)>>,
      <<"INTERMEDIATE", DampingMatrices(2)>>, <<"COMPLEX", DampingMatrices(6)>>,
      <<"INTERMEDIATE", DampingMatrices(6)>> }

\* <<inertia, weight, buoyancy, centre of gravity, centre of buoyancy>>
EvalBodies ==
    { <<Diagonal(<<2, 2, 2, 1, 1, 1>>), 2, 2, <<1, 0, 1>>, <<1, 0, 1>> >>,
      <<CoupledInertia, 2, 1, <<0, 1, -1>>, <<0, 0, 1>> >>,
      <<SingularInertia, 1, 2, <<0, 0, 0>>, <<1, 0, 0>> >> }

EvalParameterSets ==
    { UWVParameters(d[1], b[1], d[2], b[5], b[4], b[2], b[3]) :
        d \in EvalDamping, b \in EvalBodies }

Accelerations == { <<1, -2, 0, 1, 0, -1>>, <<0, 3, 1, -1, 2, 0>> }

Velocities == { IntScaleRow(<<-1, 2, 1, 1, 0, 2>>, k) : k \in 0..MaxSpeed }

EvalInputs ==
    (Accelerations \X Velocities \X Orientations)
    \cup { <<WithNaN(<<1, -2, 0, 1, 0, -1>>, i), <<-1, 2, 1, 1, 0, 2>>, Tilted>> : i \in 1..6 }
    \cup { <<<<1, -2, 0, 1, 0, -1>>, WithNaN(<<-1, 2, 1, 1, 0, 2>>, i), Tilted>> : i \in 1..6 }
    \cup { <<WithNaN(Zero6, 2), WithNaN(Zero6, 5), Upright>> }

---------------------------------------------------------------------------
(* Specifications.                                                         *)

Next ==
    \/ \E parameters \in ConfigParameterSets : setUWVParameters(parameters)
    \/ getUWVParameters
    \/ \E in \in ConfigInputs : calcAcceleration(in[1], in[2], in[3])
    \/ \E in \in ConfigInputs : calcEfforts(in[1], in[2], in[3])

Spec == Init /\ [][Next]_vars

NextEval ==
    \/ \E parameters \in EvalParameterSets : setUWVParameters(parameters)
    \/ getUWVParameters
    \/ \E in \in EvalInputs : calcAcceleration(in[1], in[2], in[3])
    \/ \E in \in EvalInputs : calcEfforts(in[1], in[2], in[3])

SpecEval == Init /\ [][NextEval]_vars

---------------------------------------------------------------------------
(* Properties.                                                             *)

Evaluations == {"calcAcceleration", "calcEfforts"}

\* the damping-matrix count the data model requires of a fidelity
RequiredDampingSize(type) == IF type = "COMPLEX" THEN 6 ELSE 2

CountMismatch == {"quadDampMatrices does not have 6 elements.",
                  "dampMatrices does not have 2 elements."}

ContainsNaN(v) == v[1] = NaN \/ v[2] = NaN \/ v[3] = NaN \/ v[4] = NaN \/ v[5] = NaN \/ v[6] = NaN

Sigma(F(_)) == F(1) + F(2) + F(3) + F(4) + F(5) + F(6)

Vector6(F(_)) == <<F(1), F(2), F(3), F(4), F(5), F(6)>>

AbsOf(x) == IF x < 0 THEN 0 - x ELSE x

\* C1: a setUWVParameters call that throws leaves uwv_parameters (what
\* getUWVParameters returns) and invert_inertia_matrix as they were before the call.
C1_RejectedSetChangesNothing ==
    [][ (call'.op = "setUWVParameters" /\ call'.ret.outcome # "ok")
          => (uwv_parameters' = uwv_parameters
              /\ invert_inertia_matrix' = invert_inertia_matrix) ]_vars

\* a COMPLEX set with 2 damping matrices was rejected while a set other than the default was active
C1_Witness ==
    /\ call.op = "setUWVParameters"
    /\ call.ret.outcome = "invalid_argument"
    /\ call.parameters.model_type = "COMPLEX"
    /\ Len(call.parameters.damping_matrices) = 2
    /\ uwv_parameters # DefaultUWVParameters
    /\ uwv_parameters # call.parameters

\* C2: setUWVParameters throws invalid_argument whenever the fidelity is SIMPLE or
\* INTERMEDIATE and the damping count is not 2, and whenever it is COMPLEX and the
\* count is not 6, whatever the weight, buoyancy and inertia matrix.
C2_WrongDampingCountRejected ==
    call.op = "setUWVParameters"
      => ( Len(call.parameters.damping_matrices) # RequiredDampingSize(call.parameters.model_type)
             => call.ret.outcome = "invalid_argument" )

\* C3: setUWVParameters throws invalid_argument whenever weight <= 0 or buoyancy <= 0,
\* for every fidelity with the damping count that fidelity requires.
C3_NonPositiveWeightOrBuoyancyRejected ==
    call.op = "setUWVParameters"
      => ( (call.parameters.weight <= 0 \/ call.parameters.buoyancy <= 0)
             => call.ret.outcome = "invalid_argument" )

\* an INTERMEDIATE set with 2 damping matrices and zero buoyancy was rejected for its buoyancy
C3_Witness ==
    /\ call.op = "setUWVParameters"
    /\ call.parameters.model_type = "INTERMEDIATE"
    /\ Len(call.parameters.damping_matrices) = 2
    /\ call.parameters.weight > 0
    /\ call.parameters.buoyancy = 0
    /\ call.ret.outcome = "invalid_argument"
    /\ call.ret.what = "buoyancy must be a positive value"

\* C4: calcAcceleration throws runtime_error whenever control_input or velocity holds a
\* NaN in any component, calcEfforts whenever acceleration or velocity does; no vector
\* is returned.
C4_NaNInputRejected ==
    /\ (call.op = "calcAcceleration"
          /\ (ContainsNaN(call.control_input) \/ ContainsNaN(call.velocity)))
         => (call.ret.outcome = "runtime_error" /\ "value" \notin DOMAIN call.ret)
    /\ (call.op = "calcEfforts"
          /\ (ContainsNaN(call.acceleration) \/ ContainsNaN(call.velocity)))
         => (call.ret.outcome = "runtime_error" /\ "value" \notin DOMAIN call.ret)

\* calcAcceleration was refused a velocity whose only NaN is the last component
C4_Witness ==
    /\ call.op = "calcAcceleration"
    /\ ~ContainsNaN(call.control_input)
    /\ call.velocity[6] = NaN
    /\ \A i \in 1..5 : call.velocity[i] # NaN
    /\ call.ret.outcome = "runtime_error"
    /\ call.ret.what = "DynamicModel checkVelocity: velocity is unset"

\* C5: with an invertible inertia matrix, calcAcceleration applied to the effort that
\* calcEfforts(a, v, R) returned, with the same v and R, returns a.
C5_RoundTrip ==
    (call.op = "calcEfforts" /\ call.ret.outcome = "ok"
       /\ Invertible(uwv_parameters.inertia_matrix))
      => calcAccelerationResult(call.ret.value, call.velocity, call.orientation)
           = Ok([num |-> call.acceleration, den |-> 1])

\* an effort was returned for a moving, tilted COMPLEX vehicle with coupled inertia and
\* unequal weight and buoyancy
C5_Witness ==
    /\ call.op = "calcEfforts"
    /\ call.ret.outcome = "ok"
    /\ uwv_parameters.model_type = "COMPLEX"
    /\ uwv_parameters.inertia_matrix = CoupledInertia
    /\ uwv_parameters.weight # uwv_parameters.buoyancy
    /\ call.velocity # Zero6
    /\ call.orientation = Tilted
    /\ call.ret.value # call.acceleration

\* C6: a calcAcceleration or calcEfforts call, returning or throwing, leaves
\* uwv_parameters and invert_inertia_matrix unchanged.
C6_EvaluationReadOnly ==
    [][ call'.op \in Evaluations
          => (uwv_parameters' = uwv_parameters
              /\ invert_inertia_matrix' = invert_inertia_matrix) ]_vars

\* calcEfforts threw on a model whose parameters had been replaced
C6_Witness ==
    /\ call.op = "calcEfforts"
    /\ call.ret.outcome = "runtime_error"
    /\ uwv_parameters # DefaultUWVParameters
    /\ invert_inertia_matrix # calcInvInertiaMatrix(DefaultUWVParameters.inertia_matrix)

\* C7: between operations invert_inertia_matrix is the inverse solved from the inertia
\* matrix of the active parameters, never that of an earlier or a rejected set.
C7_InverseOfActiveInertia ==
    invert_inertia_matrix = JacobiSVD_solve_Identity(uwv_parameters.inertia_matrix)

\* a set with another inertia matrix was rejected after the inertia matrix had been replaced
C7_Witness ==
    /\ call.op = "setUWVParameters"
    /\ call.ret.outcome # "ok"
    /\ call.parameters.inertia_matrix # uwv_parameters.inertia_matrix
    /\ uwv_parameters.inertia_matrix = CoupledInertia

\* C8: the active parameters always satisfy every consistency requirement (count 2 for
\* SIMPLE and INTERMEDIATE, 6 for COMPLEX, weight > 0, buoyancy > 0), and no evaluation
\* throws for a damping count mismatch.
C8_ActiveParametersConsistent ==
    /\ Len(uwv_parameters.damping_matrices) = RequiredDampingSize(uwv_parameters.model_type)
    /\ uwv_parameters.weight > 0
    /\ uwv_parameters.buoyancy > 0
    /\ (call.op \in Evaluations /\ call.ret.outcome # "ok") => call.ret.what \notin CountMismatch

\* linear plus quadratic damping, written out by components:
\* sum_j D0[i][j] v[j] + sum_j D1[i][j] |v[j]| v[j]
LinearPlusQuadratic(D, v) ==
    Vector6(LAMBDA i : Sigma(LAMBDA j : D[1][i][j] * v[j])
                       + Sigma(LAMBDA j : D[2][i][j] * AbsOf(v[j]) * v[j]))

\* general quadratic damping by components: sum_j (sum_k D_k[i][j] |v[k]|) v[j]
GeneralQuadratic(D, v) ==
    Vector6(LAMBDA i : Sigma(LAMBDA j : Sigma(LAMBDA k : D[k][i][j] * AbsOf(v[k])) * v[j]))

Sum6(a, b) == Vector6(LAMBDA i : a[i] + b[i])

Difference6(a, b) == Vector6(LAMBDA i : a[i] - b[i])

\* the velocity-dependent term each fidelity is to use
VelocityTerm(parameters, v) ==
    CASE parameters.model_type = "SIMPLE" ->
            LinearPlusQuadratic(parameters.damping_matrices, v)
      [] parameters.model_type = "INTERMEDIATE" ->
            Sum6(LinearPlusQuadratic(parameters.damping_matrices, v),
                 calcCoriolisEffect(parameters.inertia_matrix, v))
      [] parameters.model_type = "COMPLEX" ->
            Sum6(GeneralQuadratic(parameters.damping_matrices, v),
                 calcCoriolisEffect(parameters.inertia_matrix, v))

\* C9: the velocity-dependent term of both evaluations is chosen by the fidelity alone:
\* linear plus quadratic damping without Coriolis for SIMPLE, the same plus Coriolis for
\* INTERMEDIATE, general quadratic damping plus Coriolis for COMPLEX; and for SIMPLE with
\* zero damping matrices and zero velocity calcEfforts returns inertia * a + gravity.
C9_TermSelectedByFidelity ==
    /\ (call.op = "calcEfforts" /\ call.ret.outcome = "ok")
         => call.ret.value
              = Sum6(Sum6(MatVec(uwv_parameters.inertia_matrix, call.acceleration),
                          calcGravityBuoyancyOf(call.orientation, uwv_parameters)),
                     VelocityTerm(uwv_parameters, call.velocity))
    /\ (call.op = "calcAcceleration" /\ call.ret.outcome = "ok")
         => call.ret.value
              = FracMatVec(invert_inertia_matrix,
                           Difference6(Difference6(call.control_input,
                                           calcGravityBuoyancyOf(call.orientation, uwv_parameters)),
                                       VelocityTerm(uwv_parameters, call.velocity)))
    /\ (call.op = "calcEfforts" /\ call.ret.outcome = "ok"
          /\ uwv_parameters.model_type = "SIMPLE"
          /\ uwv_parameters.damping_matrices = <<ZeroMatrix, ZeroMatrix>>
          /\ call.velocity = Zero6)
         => call.ret.value
              = Sum6(MatVec(uwv_parameters.inertia_matrix, call.acceleration),
                     calcGravityBuoyancyOf(call.orientation, uwv_parameters))

\* an effort was returned for a moving SIMPLE vehicle with coupled inertia and non-zero
\* damping, where a Coriolis term would not be zero
C9_Witness ==
    /\ call.op = "calcEfforts"
    /\ call.ret.outcome = "ok"
    /\ uwv_parameters.model_type = "SIMPLE"
    /\ uwv_parameters.inertia_matrix = CoupledInertia
    /\ uwv_parameters.damping_matrices # <<ZeroMatrix, ZeroMatrix>>
    /\ call.velocity # Zero6
    /\ calcCoriolisEffect(uwv_parameters.inertia_matrix, call.velocity) # Zero6

\* C10: with weight = buoyancy and centre of gravity = centre of buoyancy the restoring
\* term is zero for every orientation; the Coriolis term is zero at zero velocity; and
\* calcEfforts at zero velocity then returns inertia * a.
C10_BalancedVehicleHasNoRestoringTerm ==
    /\ (uwv_parameters.weight = uwv_parameters.buoyancy
          /\ uwv_parameters.distance_body2centerofgravity
               = uwv_parameters.distance_body2centerofbuoyancy)
         => \A o \in Orientations : calcGravityBuoyancyOf(o, uwv_parameters) = Zero6
    /\ calcCoriolisEffect(uwv_parameters.inertia_matrix, Zero6) = Zero6
    /\ (call.op = "calcEfforts" /\ call.ret.outcome = "ok" /\ call.velocity = Zero6
          /\ uwv_parameters.weight = uwv_parameters.buoyancy
          /\ uwv_parameters.distance_body2centerofgravity
               = uwv_parameters.distance_body2centerofbuoyancy)
         => call.ret.value = MatVec(uwv_parameters.inertia_matrix, call.acceleration)

\* an effort was returned at zero velocity for a tilted vehicle with equal weight and
\* buoyancy acting at one point away from the body origin
C10_Witness ==
    /\ call.op = "calcEfforts"
    /\ call.ret.outcome = "ok"
    /\ call.velocity = Zero6
    /\ call.orientation = Tilted
    /\ uwv_parameters.weight = uwv_parameters.buoyancy
    /\ uwv_parameters.distance_body2centerofgravity = uwv_parameters.distance_body2centerofbuoyancy
    /\ uwv_parameters.distance_body2centerofgravity # Zero3
    /\ call.ret.value # Zero6

=============================================================================
